---- MODULE Spec2Model ----
(***************************************************************************)
(* The configuration subsystem of rem-bot (src/src/utils/configParser.ts)  *)
(* and its callers.  Strings are sequences of one-character strings, so    *)
(* that trimming, splitting, the regular expressions and the type          *)
(* inference are computed character by character.  Objects live in a heap  *)
(* (address -> object) with prototype chains, because the path assigner    *)
(* and the merger read and write properties through references.            *)
(***************************************************************************)
EXTENDS Integers, Sequences, FiniteSets, TLC

VARIABLES
    heap,      \* the object heap shared by every resolution of the process
    pc,        \* per createConfig call: "idle", "fetching", "returned", "rejected"
    repoOf,    \* per call: the repository identifier it was called with
    fetched,   \* per call: what getFileContent gave ("none", "ok" + text, "fail")
    result,    \* per call: the configuration returned to the caller
    parsed,    \* per call: the parsed structural object and how parseContent ended
    vIn,       \* the raw value string handed to parseValue
    vOut,      \* the value parseValue inferred for vIn
    raw,       \* the raw text handed to parseContent in a fresh process
    merging,   \* what parseContent built and merged for raw
    pushPc,    \* where the push handler is: "idle", "config", "getCommit", ..., "done"
    payload,   \* the payload of the push event the handler was called with
    pushConfig,  \* the configuration createConfig returned to the push handler
    commitAt,  \* the index in payload.commits of the commit the loop is at
    trace,     \* what the push handler did, in order: <<what, index of the commit>>
    blueskyEnv,  \* whether BLUESKY_IDENTIFIER and BLUESKY_PASSWORD are set
    statsPc,   \* where generateWeeklyStats is: "idle", "tasks", "posted", "failed"
    repos,     \* the repositories listForUser gave
    taskPc,    \* per repository task: "config", "api", "finished"
    taskConfig,  \* per task: the configuration createConfig returned to it
    activeRepos, \* the counter activeRepos
    tracked    \* the number of active repositories the stats post reports

pushVars  == <<pushPc, payload, pushConfig, commitAt, trace, blueskyEnv>>
statsVars == <<statsPc, repos, taskPc, taskConfig, activeRepos, tracked>>

vars == <<heap, pc, repoOf, fetched, result, parsed, vIn, vOut, raw, merging,
          pushVars, statsVars>>

(***************************************************************************)
(* Characters and strings                                                  *)
(***************************************************************************)

\* String.prototype.trim strips these (the ones the input alphabet has)
WhiteSpace == {" ", "\t", "\r", "\n"}

\* the characters the regular expressions' '.' does not match
LineTerminators == {"\n", "\r"}

Quotes == {"\"", "'"}

UpperChars == <<"A","B","C","D","E","F","G","H","I","J","K","L","M",
                "N","O","P","Q","R","S","T","U","V","W","X","Y","Z">>

LowerChars == <<"a","b","c","d","e","f","g","h","i","j","k","l","m",
                "n","o","p","q","r","s","t","u","v","w","x","y","z">>

DigitChars == <<"0","1","2","3","4","5","6","7","8","9",
                "a","b","c","d","e","f">>

toLowerChar(c) ==
    IF \E i \in 1..26 : UpperChars[i] = c
    THEN LowerChars[CHOOSE i \in 1..26 : UpperChars[i] = c]
    ELSE c

\* a comparison that tells upper case from lower case
sameCase(s) == s

\* s.toLowerCase()
toLowerCase(s) == [i \in 1..Len(s) |-> toLowerChar(s[i])]

\* s.trim()
trim(s) ==
    LET keep == {i \in 1..Len(s) : s[i] \notin WhiteSpace}
    IN  IF keep = {} THEN <<>>
        ELSE SubSeq(s, CHOOSE i \in keep : \A j \in keep : i <= j,
                       CHOOSE i \in keep : \A j \in keep : i >= j)

\* s.split(sep) for a one-character separator
RECURSIVE split(_, _)
split(s, sep) ==
    IF \E i \in 1..Len(s) : s[i] = sep
    THEN LET i == CHOOSE k \in 1..Len(s) :
                      s[k] = sep /\ \A j \in 1..(k - 1) : s[j] # sep
         IN  <<SubSeq(s, 1, i - 1)>> \o split(SubSeq(s, i + 1, Len(s)), sep)
    ELSE <<s>>

\* s.includes(c)
includes(s, c) == \E i \in 1..Len(s) : s[i] = c

\* every character of s is one the regular expressions' '.' matches
DotAll(s) == \A i \in 1..Len(s) : s[i] \notin LineTerminators

(***************************************************************************)
(* Number(s): the StringNumericLiteral grammar.  A number is <<m, e>>,     *)
(* meaning m / 10^e with m not divisible by 10 unless e = 0, so that equal *)
(* numbers written differently ("1.50", "1.5", "15e-1") are equal values;  *)
(* <<1, -1>> and <<-1, -1>> are +Infinity and -Infinity.                   *)
(***************************************************************************)

DigitVal(c) == (CHOOSE i \in 1..16 : DigitChars[i] = toLowerChar(c)) - 1

IsDigitsOf(s, radix) ==
    /\ Len(s) > 0
    /\ \A i \in 1..Len(s) :
          \E d \in 1..radix : DigitChars[d] = toLowerChar(s[i])

RECURSIVE RadixValue(_, _)
RadixValue(s, radix) ==
    IF s = <<>> THEN 0
    ELSE RadixValue(SubSeq(s, 1, Len(s) - 1), radix) * radix + DigitVal(s[Len(s)])

RECURSIVE Pow10(_)
Pow10(n) == IF n <= 0 THEN 1 ELSE 10 * Pow10(n - 1)

RECURSIVE Normalise(_, _)
Normalise(m, e) ==
    IF m = 0 THEN <<0, 0>>
    ELSE IF e < 0 THEN <<m * Pow10(0 - e), 0>>
    ELSE IF e > 0 /\ m % 10 = 0 THEN Normalise(m \div 10, e - 1)
    ELSE <<m, e>>

W_Infinity == <<"I","n","f","i","n","i","t","y">>

NaN == [ok |-> FALSE, v |-> <<0, 0>>]

\* the index of the first character of s that is in set, Len(s) + 1 if none
FirstIndex(s, set) ==
    IF \E i \in 1..Len(s) : s[i] \in set
    THEN CHOOSE i \in 1..Len(s) : s[i] \in set /\ \A j \in 1..(i - 1) : s[j] \notin set
    ELSE Len(s) + 1

\* the value of an unsigned run of decimal digits, as an exponent
ExponentDigits(neg, body) ==
    IF IsDigitsOf(body, 10)
    THEN [ok |-> TRUE, v |-> IF neg THEN 0 - RadixValue(body, 10)
                                    ELSE RadixValue(body, 10)]
    ELSE [ok |-> FALSE, v |-> 0]

\* ExponentPart after its e: an optionally signed run of decimal digits
SignedInt(s) ==
    ExponentDigits(Len(s) > 0 /\ s[1] = "-",
                   IF Len(s) > 0 /\ s[1] \in {"+", "-"} THEN Tail(s) ELSE s)

\* the integer digits ip and fraction digits fp of a mantissa, times 10^e
DecimalDigits(ip, fp, e) ==
    IF /\ ip = <<>> \/ IsDigitsOf(ip, 10)
       /\ fp = <<>> \/ IsDigitsOf(fp, 10)
       /\ ip # <<>> \/ fp # <<>>
    THEN [ok |-> TRUE, v |-> Normalise(RadixValue(ip \o fp, 10), Len(fp) - e)]
    ELSE NaN

\* a mantissa split at its dots, with its exponent ex
DecimalParts(parts, ex) ==
    IF Len(parts) <= 2 /\ ex.ok
    THEN DecimalDigits(parts[1], IF Len(parts) > 1 THEN parts[2] ELSE <<>>, ex.v)
    ELSE NaN

\* StrUnsignedDecimalLiteral with its first e or E at index ei
UnsignedAt(s, ei) ==
    DecimalParts(split(SubSeq(s, 1, ei - 1), "."),
                 IF ei > Len(s) THEN [ok |-> TRUE, v |-> 0]
                 ELSE SignedInt(SubSeq(s, ei + 1, Len(s))))

\* StrUnsignedDecimalLiteral
UnsignedDecimal(s) ==
    IF s = W_Infinity THEN [ok |-> TRUE, v |-> <<1, -1>>]
    ELSE UnsignedAt(s, FirstIndex(s, {"e", "E"}))

\* a 0x, 0o or 0b literal: its prefix letter and its digits
RadixLiteral(letter, body, radix) ==
    IF IsDigitsOf(body, radix)
    THEN [ok |-> TRUE, v |-> <<RadixValue(body, radix), 0>>]
    ELSE NaN

\* the number u with a minus sign before it when neg
Negated(neg, u) ==
    IF u.ok /\ neg THEN [ok |-> TRUE, v |-> <<0 - u.v[1], u.v[2]>>] ELSE u

\* Number(s), s already trimmed: ok is FALSE where JavaScript gives NaN
StringToNumber(s) ==
    IF s = <<>> THEN [ok |-> TRUE, v |-> <<0, 0>>]
    ELSE IF Len(s) > 2 /\ s[1] = "0" /\ s[2] \in {"x", "X", "o", "O", "b", "B"}
    THEN RadixLiteral(s[2], SubSeq(s, 3, Len(s)),
                      IF s[2] \in {"x", "X"} THEN 16
                      ELSE IF s[2] \in {"o", "O"} THEN 8 ELSE 2)
    ELSE Negated(s[1] = "-",
                 UnsignedDecimal(IF s[1] \in {"+", "-"} THEN Tail(s) ELSE s))

(***************************************************************************)
(* Values.  A value is a pair <<tag, v>>: "bool" (v a boolean), "num" (v a *)
(* pair as above), "str" (v a string), "list" (v a sequence of values: an  *)
(* array not yet stored in the heap), "ref" (v a heap address), "undef"    *)
(* and "null" (v = 0).                                                     *)
(***************************************************************************)

Bool(b)  == <<"bool", b>>
Num(p)   == <<"num", p>>
Str(s)   == <<"str", s>>
List(q)  == <<"list", q>>
Ref(a)   == <<"ref", a>>
Undef    == <<"undef", 0>>
Null     == <<"null", 0>>

TagOf(x) == x[1]
ValOf(x) == x[2]

W_true  == <<"t","r","u","e">>
W_false == <<"f","a","l","s","e">>

\* trimmed.replace(/^["'](.+)["']$/, '$1')
stripQuotes(s) ==
    IF /\ Len(s) >= 3
       /\ s[1] \in Quotes
       /\ s[Len(s)] \in Quotes
       /\ DotAll(SubSeq(s, 2, Len(s) - 1))
    THEN SubSeq(s, 2, Len(s) - 1)
    ELSE s

RECURSIVE parseValue(_)

\* an inference that strips the quotes before it checks for a boolean
parseUnquotedFirst(trimmed, lower, number) ==
    IF toLowerCase(stripQuotes(trimmed)) = W_true THEN Bool(TRUE)
    ELSE IF toLowerCase(stripQuotes(trimmed)) = W_false THEN Bool(FALSE)
    ELSE IF number.ok THEN Num(number.v)
    ELSE IF includes(trimmed, ",")
    THEN List([i \in 1..Len(split(trimmed, ",")) |->
                  parseValue(trim(split(trimmed, ",")[i]))])
    ELSE Str(stripQuotes(trimmed))

\* the rules of ConfigParser.parseValue, given the trimmed text, its
\* lower-cased form and Number(trimmed)
parseInferred(trimmed, lower, number) ==
    IF lower = W_true THEN Bool(TRUE)
    ELSE IF lower = W_false THEN Bool(FALSE)
    ELSE IF number.ok THEN Num(number.v)
    ELSE IF includes(trimmed, ",")
    THEN List([i \in 1..Len(split(trimmed, ",")) |->
                  parseValue(trim(split(trimmed, ",")[i]))])
    ELSE Str(stripQuotes(trimmed))

\* ConfigParser.parseValue once value.trim() is at hand
parseTrimmed(trimmed) ==
    parseInferred(trimmed, toLowerCase(trimmed), StringToNumber(trimmed))

\* ConfigParser.parseValue(value)
parseValue(value) == parseTrimmed(trim(value))

(***************************************************************************)
(* The heap.  An object is [kind, proto, props, hidden, frozen]: kind is   *)
(* "object", "array" or "function"; proto is the address of its prototype  *)
(* (0 is null); props maps its own property names to values; hidden are    *)
(* the own properties that are not enumerable, frozen those that are not   *)
(* writable.  The first addresses hold the objects that exist before any   *)
(* call: the built-in prototypes and constructors that a property path of  *)
(* the input alphabet can reach, and the default configuration.  Built-in  *)
(* properties other than constructor, prototype and __proto__ (length,     *)
(* name, toString, ...) are not represented.                               *)
(***************************************************************************)

W_github        == <<"g","i","t","h","u","b">>
W_commits       == <<"c","o","m","m","i","t","s">>
W_postToBluesky == <<"p","o","s","t","T","o","B","l","u","e","s","k","y">>
W_stats         == <<"s","t","a","t","s">>
W_enable        == <<"e","n","a","b","l","e">>
W_constructor   == <<"c","o","n","s","t","r","u","c","t","o","r">>
W_prototype     == <<"p","r","o","t","o","t","y","p","e">>
W_proto         == <<"_","_","p","r","o","t","o","_","_">>

HeapRoots == <<"Object.prototype", "Function.prototype", "Array.prototype",
               "Number.prototype", "String.prototype", "Boolean.prototype",
               "Object", "Function", "Array", "Number", "String", "Boolean",
               "defaultConfig", "defaultConfig.github",
               "defaultConfig.github.commits", "defaultConfig.stats">>

AddrOf(name) == CHOOSE a \in 1..Len(HeapRoots) : HeapRoots[a] = name

ObjectProto == AddrOf("Object.prototype")

NoProps == [k \in {} |-> Undef]

Obj(kind, proto, props, hidden, frozen) ==
    [kind |-> kind, proto |-> proto, props |-> props,
     hidden |-> hidden, frozen |-> frozen]

\* {} in the source: a new object inheriting from Object.prototype
PlainObject(props) == Obj("object", ObjectProto, props, {}, {})

\* a built-in prototype object and its constructor function
BuiltinProto(ctor, parent) ==
    Obj("object", parent, W_constructor :> Ref(AddrOf(ctor)), {W_constructor}, {})

BuiltinFn(protoName) ==
    Obj("function", AddrOf("Function.prototype"),
        W_prototype :> Ref(AddrOf(protoName)), {W_prototype}, {W_prototype})

\* const defaultConfig: RemConfig = { github: { commits: { postToBluesky: true } },
\*                                    stats: { enable: true } }
defaultConfig == AddrOf("defaultConfig")

DefaultConfigObjects ==
    [n \in {"defaultConfig", "defaultConfig.github",
            "defaultConfig.github.commits", "defaultConfig.stats"} |->
        CASE n = "defaultConfig" ->
                 PlainObject((W_github :> Ref(AddrOf("defaultConfig.github")))
                             @@ (W_stats :> Ref(AddrOf("defaultConfig.stats"))))
          [] n = "defaultConfig.github" ->
                 PlainObject(W_commits :> Ref(AddrOf("defaultConfig.github.commits")))
          [] n = "defaultConfig.github.commits" ->
                 PlainObject(W_postToBluesky :> Bool(TRUE))
          [] n = "defaultConfig.stats" ->
                 PlainObject(W_enable :> Bool(TRUE))]

\* the heap when the module has been loaded and no call has run
InitialHeap ==
    [a \in 1..Len(HeapRoots) |->
        LET n == HeapRoots[a]
        IN  CASE n = "Object.prototype"   -> BuiltinProto("Object", 0)
              [] n = "Function.prototype" -> BuiltinProto("Function", ObjectProto)
              [] n = "Array.prototype"    -> BuiltinProto("Array", ObjectProto)
              [] n = "Number.prototype"   -> BuiltinProto("Number", ObjectProto)
              [] n = "String.prototype"   -> BuiltinProto("String", ObjectProto)
              [] n = "Boolean.prototype"  -> BuiltinProto("Boolean", ObjectProto)
              [] n = "Object"   -> BuiltinFn("Object.prototype")
              [] n = "Function" -> BuiltinFn("Function.prototype")
              [] n = "Array"    -> BuiltinFn("Array.prototype")
              [] n = "Number"   -> BuiltinFn("Number.prototype")
              [] n = "String"   -> BuiltinFn("String.prototype")
              [] n = "Boolean"  -> BuiltinFn("Boolean.prototype")
              [] OTHER -> DefaultConfigObjects[n]]

IsRef(v) == TagOf(v) = "ref"

\* ToBoolean(v)
Truthy(v) ==
    CASE TagOf(v) = "bool" -> ValOf(v)
      [] TagOf(v) = "num"  -> ValOf(v)[1] # 0
      [] TagOf(v) = "str"  -> ValOf(v) # <<>>
      [] TagOf(v) = "ref"  -> TRUE
      [] OTHER -> FALSE

\* the address where property lookup on v starts: the object itself, or the
\* prototype of the wrapper of a primitive
LookupBase(v) ==
    CASE TagOf(v) = "ref"  -> ValOf(v)
      [] TagOf(v) = "num"  -> AddrOf("Number.prototype")
      [] TagOf(v) = "str"  -> AddrOf("String.prototype")
      [] TagOf(v) = "bool" -> AddrOf("Boolean.prototype")

\* the addresses of a's prototype chain, a included
RECURSIVE Chain(_, _)
Chain(h, a) == IF a = 0 THEN {} ELSE {a} \cup Chain(h, h[a].proto)

\* the nearest object of a's chain with an own property key, or 0
RECURSIVE Holder(_, _, _)
Holder(h, a, key) ==
    IF a = 0 THEN 0
    ELSE IF key \in DOMAIN h[a].props THEN a
    ELSE Holder(h, h[a].proto, key)

\* whether reading or writing key on v reaches Object.prototype's __proto__ accessor
IsProtoAccess(h, v, key) ==
    /\ key = W_proto
    /\ Holder(h, LookupBase(v), key) = 0
    /\ ObjectProto \in Chain(h, LookupBase(v))

\* v[key]
Get(h, v, key) ==
    IF IsProtoAccess(h, v, key)
    THEN IF ~IsRef(v) THEN Ref(LookupBase(v))
         ELSE IF h[ValOf(v)].proto = 0 THEN Null
         ELSE Ref(h[ValOf(v)].proto)
    ELSE LET a == Holder(h, LookupBase(v), key)
         IN  IF a = 0 THEN Undef ELSE h[a].props[key]

\* key in v, for an object v
HasProperty(h, v, key) ==
    \/ Holder(h, ValOf(v), key) # 0
    \/ IsProtoAccess(h, v, key)

\* v instanceof Object
InstanceOfObject(h, v) ==
    /\ IsRef(v)
    /\ ObjectProto \in Chain(h, h[ValOf(v)].proto)

Threw(h)  == [ok |-> FALSE, h |-> h]
Done(h)   == [ok |-> TRUE, h |-> h]

\* v[key] = val in strict mode (the file is an ES module): ok is FALSE when
\* the assignment throws a TypeError
Put(h, v, key, val) ==
    IF IsProtoAccess(h, v, key)
    THEN \* the __proto__ setter: ignores a primitive receiver or value
         IF ~IsRef(v) \/ TagOf(val) \notin {"ref", "null"} THEN Done(h)
         ELSE LET a  == ValOf(v)
                  np == IF IsRef(val) THEN ValOf(val) ELSE 0
              IN  IF h[a].proto = np THEN Done(h)
                  ELSE IF a = ObjectProto \/ a \in Chain(h, np) THEN Threw(h)
                  ELSE Done([h EXCEPT ![a].proto = np])
    ELSE IF ~IsRef(v) THEN Threw(h)
    ELSE LET a   == ValOf(v)
             own == key \in DOMAIN h[a].props
             up  == Holder(h, a, key)
         IN  IF up # 0 /\ key \in h[up].frozen THEN Threw(h)
             ELSE IF own THEN Done([h EXCEPT ![a].props[key] = val])
             ELSE Done([h EXCEPT ![a].props = (key :> val) @@ @])

\* a fresh address
NewAddr(h) == (CHOOSE a \in DOMAIN h : \A b \in DOMAIN h : a >= b) + 1

Alloc(h, obj) == (NewAddr(h) :> obj) @@ h

\* String(n) for an array index
RECURSIVE IndexKey(_)
IndexKey(n) ==
    IF n < 10 THEN <<DigitChars[n + 1]>>
    ELSE IndexKey(n \div 10) \o <<DigitChars[(n % 10) + 1]>>

\* the value parseValue returned, as the caller holds it: a list is an
\* array object in the heap
Materialise(h, pv) ==
    IF TagOf(pv) = "list"
    THEN LET q == ValOf(pv)
             props == [k \in {IndexKey(i - 1) : i \in 1..Len(q)} |->
                          q[CHOOSE i \in 1..Len(q) : IndexKey(i - 1) = k]]
         IN  [h |-> Alloc(h, Obj("array", AddrOf("Array.prototype"), props, {}, {})),
              v |-> Ref(NewAddr(h))]
    ELSE [h |-> h, v |-> pv]

(***************************************************************************)
(* ConfigParser                                                            *)
(***************************************************************************)

RECURSIVE setNestedFrom(_, _, _, _, _)

\* current = current[key], once current[key] = ... has been carried out
setNestedInto(put, next, path, i, value) ==
    IF put.ok THEN setNestedFrom(put.h, next, path, i + 1, value) ELSE put

\* current[key] = current[key] || {}, where old is what current[key] read
setNestedStep(h, current, path, i, value, old) ==
    IF Truthy(old)
    THEN setNestedInto(Put(h, current, path[i], old), old, path, i, value)
    ELSE setNestedInto(Put(Alloc(h, PlainObject(NoProps)), current, path[i],
                           Ref(NewAddr(h))),
                       Ref(NewAddr(h)), path, i, value)

\* ConfigParser.setNestedValue from loop index i on: the loop over the
\* intermediate segments, then the assignment of the last segment
setNestedFrom(h, current, path, i, value) ==
    IF i = Len(path)
    THEN Put(h, current, path[i], value)
    ELSE setNestedStep(h, current, path, i, value, Get(h, current, path[i]))

\* ConfigParser.setNestedValue(obj, path, value)
setNestedValue(h, obj, path, value) == setNestedFrom(h, Ref(obj), path, 1, value)

\* the keys a for...in loop over object a visits
RECURSIVE ForInKeys(_, _)
ForInKeys(h, a) ==
    IF a = 0 THEN {}
    ELSE ((DOMAIN h[a].props) \ h[a].hidden)
         \cup (ForInKeys(h, h[a].proto) \ DOMAIN h[a].props)

\* the own enumerable properties of a string: its characters by index
StringProps(q) ==
    [k \in {IndexKey(i - 1) : i \in 1..Len(q)} |->
        Str(<<q[CHOOSE i \in 1..Len(q) : IndexKey(i - 1) = k]>>)]

\* the own enumerable properties of the object at address a
OwnEnumerable(h, a) ==
    [k \in (DOMAIN h[a].props) \ h[a].hidden |-> h[a].props[k]]

\* { ...target }: a new object with target's own enumerable properties
Spread(h, target) ==
    CASE TagOf(target) = "ref" -> PlainObject(OwnEnumerable(h, ValOf(target)))
      [] TagOf(target) = "str" -> PlainObject(StringProps(ValOf(target)))
      [] OTHER -> PlainObject(NoProps)

\* a merge that writes into target itself instead of a copy of it
outputInPlace(h, target) ==
    IF IsRef(target) THEN [h |-> h, out |-> ValOf(target)]
    ELSE [h |-> Alloc(h, Spread(h, target)), out |-> NewAddr(h)]

\* const output = { ...target }: the heap with the copy, and its address
outputOf(h, target) == [h |-> Alloc(h, Spread(h, target)), out |-> NewAddr(h)]

\* the depth of nested deepMerge calls at which the engine's call stack is
\* exhausted and a RangeError is thrown (it stands for the engine's limit)
MaxCallDepth == 8

MergeThrew(h, output) == [ok |-> FALSE, h |-> h, out |-> output]

\* ConfigParser.deepMerge(target, source), called at nesting depth `depth`:
\* [ok, h, out], out the address of the merged object; ok is FALSE when it
\* throws.  deepMergeKeys is its for...in loop over the keys not yet visited.
RECURSIVE deepMerge(_, _, _, _)
RECURSIVE deepMergeKeys(_, _, _, _, _, _)

\* the loop goes on once output[key] = ... has been carried out
deepMergeNext(put, output, target, source, rest, depth) ==
    IF put.ok THEN deepMergeKeys(put.h, output, target, source, rest, depth)
    ELSE MergeThrew(put.h, output)

\* output[key] = sub, the result of the nested deepMerge
deepMergeSub(sub, output, target, source, key, rest, depth) ==
    IF sub.ok
    THEN deepMergeNext(Put(sub.h, Ref(output), key, Ref(sub.out)),
                       output, target, source, rest, depth)
    ELSE MergeThrew(sub.h, output)

\* the loop body for key, sv being source[key]
deepMergeKey(h, output, target, source, key, sv, rest, depth) ==
    IF InstanceOfObject(h, sv) /\ ~IsRef(target)
    THEN \* 'key in target' on a primitive throws a TypeError
         MergeThrew(h, output)
    ELSE IF InstanceOfObject(h, sv) /\ HasProperty(h, target, key)
    THEN deepMergeSub(deepMerge(h, Get(h, target, key), sv, depth + 1),
                      output, target, source, key, rest, depth)
    ELSE deepMergeNext(Put(h, Ref(output), key, sv),
                       output, target, source, rest, depth)

deepMergeAt(h, output, target, source, keys, key, depth) ==
    deepMergeKey(h, output, target, source, key, Get(h, source, key),
                 keys \ {key}, depth)

deepMergeKeys(h, output, target, source, keys, depth) ==
    IF keys = {} THEN [ok |-> TRUE, h |-> h, out |-> output]
    ELSE deepMergeAt(h, output, target, source, keys,
                     CHOOSE k \in keys : TRUE, depth)

deepMergeInto(copy, h, target, source, depth) ==
    deepMergeKeys(copy.h, copy.out, target, source,
                  ForInKeys(h, ValOf(source)), depth)

deepMerge(h, target, source, depth) ==
    IF depth > MaxCallDepth
    THEN MergeThrew(h, 0)
    ELSE deepMergeInto(outputOf(h, target), h, target, source, depth)

\* the value at a property path, undefined when a step has nothing to read
RECURSIVE ReadPath(_, _, _)
ReadPath(h, v, path) ==
    IF path = <<>> THEN v
    ELSE IF TagOf(v) \in {"undef", "null"} THEN Undef
    ELSE ReadPath(h, Get(h, v, Head(path)), Tail(path))

\* z.object(...) accepts a value whose parsed type is object
ZodIsObject(h, v) == IsRef(v) /\ h[ValOf(v)].kind = "object"

\* a boolean field that accepts a value of any type
ZodAny(v) ==
    IF TagOf(v) = "undef" THEN [ok |-> TRUE, v |-> Bool(TRUE)]
    ELSE [ok |-> TRUE, v |-> v]

\* a boolean field that takes its default in place of a value of another type
ZodBooleanCatch(v) ==
    IF TagOf(v) = "bool" THEN [ok |-> TRUE, v |-> v]
    ELSE [ok |-> TRUE, v |-> Bool(TRUE)]

\* z.boolean().default(true)
ZodBooleanDefault(v) ==
    IF TagOf(v) = "undef" THEN [ok |-> TRUE, v |-> Bool(TRUE)]
    ELSE [ok |-> TagOf(v) = "bool", v |-> v]

\* the outcome of the schema, given whether every z.object found an object
\* and what the two z.boolean fields gave
schemaLeaves(objects, post, enable) ==
    [ok  |-> objects /\ post.ok /\ enable.ok,
     cfg |-> [postToBluesky |-> post.v, enable |-> enable.v]]

schemaObjects(h, data, github, commits, stats) ==
    schemaLeaves(/\ ZodIsObject(h, data)
                 /\ ZodIsObject(h, github)
                 /\ ZodIsObject(h, commits)
                 /\ ZodIsObject(h, stats),
                 ZodBooleanDefault(ReadPath(h, commits, <<W_postToBluesky>>)),
                 ZodBooleanDefault(ReadPath(h, stats, <<W_enable>>)))

schemaSections(h, data, github, stats) ==
    schemaObjects(h, data, github, ReadPath(h, github, <<W_commits>>), stats)

\* configSchema.parse(data): ok is FALSE when it throws a ZodError; cfg is
\* the validated configuration, a new object with the declared fields only
configSchema(h, data) ==
    schemaSections(h, data, ReadPath(h, data, <<W_github>>),
                   ReadPath(h, data, <<W_stats>>))

\* trimmedLine.match(/^\[(.+)\]$/): the section name, or no match
sectionMatch(line) ==
    IF /\ Len(line) >= 3
       /\ line[1] = "["
       /\ line[Len(line)] = "]"
       /\ DotAll(SubSeq(line, 2, Len(line) - 1))
    THEN [ok |-> TRUE, name |-> SubSeq(line, 2, Len(line) - 1)]
    ELSE [ok |-> FALSE, name |-> <<>>]

\* the key and the value around the '=' at index i of line
kvAt(line, i) ==
    [ok |-> TRUE, key |-> SubSeq(line, 1, i - 1),
     value |-> SubSeq(line, i + 1, Len(line))]

\* a match whose key runs to the last '=' of the line
kvMatchGreedy(line) ==
    IF DotAll(line) /\ \E i \in 2..(Len(line) - 1) : line[i] = "="
    THEN kvAt(line, CHOOSE i \in 2..(Len(line) - 1) :
                        line[i] = "=" /\ \A j \in (i + 1)..(Len(line) - 1) : line[j] # "=")
    ELSE [ok |-> FALSE, key |-> <<>>, value |-> <<>>]

\* trimmedLine.match(/^(.+?)=(.+)$/): the lazy key ends at the first '='
\* that leaves at least one character on each side
kvMatch(line) ==
    IF DotAll(line) /\ \E i \in 2..(Len(line) - 1) : line[i] = "="
    THEN kvAt(line, FirstIndex(SubSeq(line, 2, Len(line)), {"="}) + 1)
    ELSE [ok |-> FALSE, key |-> <<>>, value |-> <<>>]

\* the for loop of ConfigParser.parseContent from line i on: ok is FALSE
\* when setNestedValue throws
RECURSIVE parseLines(_, _, _, _, _)

\* the loop goes on once setNestedValue has returned
parseSet(set, configObj, lines, i, currentSection) ==
    IF set.ok THEN parseLines(set.h, configObj, lines, i + 1, currentSection)
    ELSE set

\* this.setNestedValue(configObj, keyPath.split('.'), val)
parseAssign(val, configObj, lines, i, currentSection, keyPath) ==
    parseSet(setNestedValue(val.h, configObj, split(keyPath, "."), val.v),
             configObj, lines, i, currentSection)

\* a loop body that places every key where it stands, whatever the section
parseUnqualified(h, configObj, lines, i, currentSection, sec, kv) ==
    IF sec.ok
    THEN parseLines(h, configObj, lines, i + 1, sec.name)
    ELSE IF kv.ok
    THEN parseAssign(Materialise(h, parseValue(kv.value)),
                     configObj, lines, i, currentSection, kv.key)
    ELSE parseLines(h, configObj, lines, i + 1, currentSection)

\* a loop body that appends a header to the current section
parseAppended(h, configObj, lines, i, currentSection, sec, kv) ==
    IF sec.ok
    THEN parseLines(h, configObj, lines, i + 1,
                    IF currentSection # <<>>
                    THEN currentSection \o <<".">> \o sec.name
                    ELSE sec.name)
    ELSE IF kv.ok
    THEN parseAssign(Materialise(h, parseValue(kv.value)),
                     configObj, lines, i, currentSection,
                     IF currentSection # <<>>
                     THEN currentSection \o <<".">> \o kv.key
                     ELSE kv.key)
    ELSE parseLines(h, configObj, lines, i + 1, currentSection)

\* the loop body from the section match on
parseMatched(h, configObj, lines, i, currentSection, sec, kv) ==
    IF sec.ok
    THEN parseLines(h, configObj, lines, i + 1, sec.name)
    ELSE IF kv.ok
    THEN parseAssign(Materialise(h, parseValue(kv.value)),
                     configObj, lines, i, currentSection,
                     IF currentSection # <<>>
                     THEN currentSection \o <<".">> \o kv.key
                     ELSE kv.key)
    ELSE parseLines(h, configObj, lines, i + 1, currentSection)

\* the loop body for one trimmed line
parseLine(h, configObj, lines, i, currentSection, trimmedLine) ==
    IF trimmedLine = <<>> \/ trimmedLine[1] = "#"
    THEN parseLines(h, configObj, lines, i + 1, currentSection)
    ELSE parseMatched(h, configObj, lines, i, currentSection,
                      sectionMatch(trimmedLine), kvMatch(trimmedLine))

parseLines(h, configObj, lines, i, currentSection) ==
    IF i > Len(lines) THEN Done(h)
    ELSE parseLine(h, configObj, lines, i, currentSection, trim(lines[i]))

\* what parseContent gives: how is "ok" when it returns cfg, and otherwise
\* the step that threw ("assign": setNestedValue, "merge": deepMerge,
\* "schema": configSchema.parse); obj is the address of configObj, looped
\* the heap when the loop over the lines ended, and merged the address of
\* mergedConfig (0 when deepMerge gave none)
Parsed(how, h, configObj, cfg, looped, merged) ==
    [how |-> how, h |-> h, obj |-> configObj, cfg |-> cfg,
     looped |-> looped, merged |-> merged]

NoFields == [postToBluesky |-> Undef, enable |-> Undef]

\* return configSchema.parse(mergedConfig), or the Error thrown for a ZodError
parseValidated(valid, merged, looped, configObj) ==
    IF valid.ok
    THEN Parsed("ok", merged.h, configObj, valid.cfg, looped, merged.out)
    ELSE Parsed("schema", merged.h, configObj, NoFields, looped, merged.out)

\* the try block of parseContent once deepMerge has run
parseMerged(merged, looped, configObj) ==
    IF merged.ok
    THEN parseValidated(configSchema(merged.h, Ref(merged.out)), merged, looped,
                        configObj)
    ELSE Parsed("merge", merged.h, configObj, NoFields, looped, 0)

\* parseContent once its loop over the lines has run
parseLooped(loop, configObj) ==
    IF loop.ok
    THEN parseMerged(deepMerge(loop.h, Ref(defaultConfig), Ref(configObj), 1),
                     loop.h, configObj)
    ELSE Parsed("assign", loop.h, configObj, NoFields, loop.h, 0)

\* ConfigParser.parseContent(content)
parseContent(h, content) ==
    parseLooped(parseLines(Alloc(h, PlainObject(NoProps)), NewAddr(h),
                           split(content, "\n"), 1, <<>>),
                NewAddr(h))

\* the own enumerable properties of a value, to a depth, as a tree: a leaf
\* is the value itself, an object is <<kind, [name -> tree]>>
RECURSIVE Snapshot(_, _, _)
Snapshot(h, v, depth) ==
    IF ~IsRef(v) THEN v
    ELSE IF depth = 0 THEN <<"deep", 0>>
    ELSE <<h[ValOf(v)].kind,
           [k \in (DOMAIN h[ValOf(v)].props) \ h[ValOf(v)].hidden |->
               Snapshot(h, h[ValOf(v)].props[k], depth - 1)]>>

(***************************************************************************)
(* createConfig and getFileContent                                         *)
(***************************************************************************)

\* what a caller reads from the configuration it was handed: src tells
\* whether it is the shared defaultConfig object or a validated copy
ConfigOf(src, post, enable) ==
    [src |-> src, postToBluesky |-> post, enable |-> enable]

NoConfig == ConfigOf("none", Undef, Undef)

\* a parser whose constructor left this.config unset
getConfigUnset(h) == NoConfig

\* parser.getConfig(): this.config, which the constructor set to defaultConfig
getConfig(h) ==
    ConfigOf("default",
             ReadPath(h, Ref(defaultConfig), <<W_github, W_commits, W_postToBluesky>>),
             ReadPath(h, Ref(defaultConfig), <<W_stats, W_enable>>))

\* how deep Snapshot looks into the parsed structural object
SnapDepth == 5

NotParsed == [how |-> "none", obj |-> Undef]

\* the addresses the objects at the addresses in seen refer to
Referred(h, seen) ==
    UNION {{ValOf(h[a].props[k]) : k \in {k \in DOMAIN h[a].props :
                                             IsRef(h[a].props[k])}}
           \cup (IF h[a].proto = 0 THEN {} ELSE {h[a].proto}) : a \in seen}

\* the objects reachable from the addresses in seen
RECURSIVE Reachable(_, _)
Reachable(h, seen) ==
    IF Referred(h, seen) \subseteq seen THEN seen
    ELSE Reachable(h, seen \cup Referred(h, seen))

\* the heap h with the addresses in keep only, renumbered in order
Compacted(h, keep) ==
    [n \in 1..Cardinality(keep) |->
        [h[CHOOSE a \in keep : Cardinality({b \in keep : b <= a}) = n]
            EXCEPT !.proto = IF @ = 0 THEN 0
                             ELSE Cardinality({b \in keep : b <= @}),
                   !.props = [k \in DOMAIN @ |->
                                IF IsRef(@[k])
                                THEN Ref(Cardinality({b \in keep : b <= ValOf(@[k])}))
                                ELSE @[k]]]]

\* the heap a call leaves behind: what the built-in objects and
\* defaultConfig still reach, at the lowest addresses (the call's other
\* objects are garbage to every later call)
Collect(h) == Compacted(h, Reachable(h, 1..Len(HeapRoots)))

\* the two parts taken without the check for an empty or missing one
ownerAndRepoUnchecked(parts) ==
    [valid |-> TRUE,
     fullRepoPath |-> parts[1] \o <<"/">>
                      \o (IF Len(parts) >= 2 THEN parts[2] ELSE <<>>)]

\* the first two parts of repository.split('/'), a missing one undefined
ownerAndRepo(parts) ==
    [valid |-> parts[1] # <<>> /\ Len(parts) >= 2 /\ parts[2] # <<>>,
     fullRepoPath |-> parts[1] \o <<"/">>
                      \o (IF Len(parts) >= 2 THEN parts[2] ELSE <<>>)]

\* createConfig up to its await: [valid, fullRepoPath]
splitRepository(repository) == ownerAndRepo(split(repository, "/"))

\* what a call leaves: the heap, where the call is, what it returned and the
\* structural object it parsed
Outcome(h, at, config, structural) ==
    [h |-> h, pc |-> at, result |-> config, parsed |-> structural]

\* a createConfig without its try/catch: the exception reaches the caller
createConfigUncaught(h, structural) ==
    Outcome(h, "rejected", NoConfig, structural)

\* the catch block of createConfig: return parser.getConfig()
createConfigCaught(h, structural) ==
    Outcome(h, "returned", getConfig(h), structural)

\* return await parser.parseFile(content), p being what parseContent gave
createConfigParsed(p, h, structural) ==
    IF p.how = "ok"
    THEN Outcome(h, "returned",
                 ConfigOf("validated", p.cfg.postToBluesky, p.cfg.enable),
                 structural)
    ELSE createConfigCaught(h, structural)

parseFile(p) ==
    createConfigParsed(p, Collect(p.h),
                       [how |-> p.how, obj |-> Snapshot(p.h, Ref(p.obj), SnapDepth)])

\* createConfig after its await: got is what getFileContent gave, [ok, text]
\* (ok FALSE: it threw)
createConfigResume(h, got) ==
    IF got.ok THEN parseFile(parseContent(h, got.text))
    ELSE createConfigCaught(h, NotParsed)

(***************************************************************************)
(* The inputs: raw configuration texts and repository identifiers          *)
(***************************************************************************)

NL  == <<"\n">>
Dot == <<".">>
Eq  == <<"=">>

W_banana == <<"b","a","n","a","n","a">>
W_hello  == <<"h","e","l","l","o">>

K_enable == W_stats \o Dot \o W_enable
K_post   == W_github \o Dot \o W_commits \o Dot \o W_postToBluesky

\* lines joined into one text by newlines
RECURSIVE Joined(_)
Joined(lines) ==
    IF Len(lines) = 0 THEN <<>>
    ELSE IF Len(lines) = 1 THEN lines[1]
    ELSE lines[1] \o NL \o Joined(Tail(lines))

T_empty       == <<>>
T_comment     == Joined(<< <<"#"," ","r","e","m">>, <<>>, <<" ","\t">> >>)
T_garbage     == Joined(<< <<"g","a","r","b","a","g","e","]">>, <<"[">>,
                           <<"=","x">>, <<"x","=">>, <<"\r","=","\r">> >>)
T_enableFalse == K_enable \o Eq \o W_false
T_sectionPost == Joined(<< <<"[">> \o W_github \o Dot \o W_commits \o <<"]">>,
                           W_postToBluesky \o Eq \o W_false >>)
T_bananaPost  == Joined(<< K_enable \o Eq \o W_banana, K_post \o Eq \o W_false >>)
T_postFive    == Joined(<< K_post \o Eq \o <<"5">>, K_enable \o Eq \o W_false >>)
T_quotedTrue  == Joined(<< K_enable \o Eq \o <<"\"">> \o W_true \o <<"\"">>,
                           K_post \o Eq \o W_false >>)
T_spaced      == K_enable \o <<" ","="," ">> \o W_false
T_statsList   == Joined(<< W_stats \o Eq \o <<"1",",","2">>, K_post \o Eq \o W_false >>)
T_statsX      == W_stats \o Dot \o <<"x","=","1">>
T_deepLeaf    == K_enable \o <<".","x",".","y","=","1">>

\* a leaf at a, then a path through a, then a declared field
LeafThenPath(leaf) ==
    Joined(<< <<"a","=">> \o leaf, <<"a",".","b","=","1">>, K_enable \o Eq \o W_false >>)

LeafValues == {<<"5">>, W_true, <<"x">>, <<"0">>, W_false}

\* texts whose paths go through built-in object properties
T_protoStats  == W_proto \o Dot \o K_enable \o Eq \o W_false
T_protoEnable == W_proto \o Dot \o W_enable \o Eq \o W_false
T_protoA      == Joined(<< K_enable \o Eq \o W_false, <<"a",".","b","=","1">>,
                           W_proto \o <<".","a","=","5">> >>)
T_ctorX       == W_constructor \o <<".","x","=","1">>
T_ctorXY      == Joined(<< W_constructor \o <<".","x",".","y","=","1">>,
                           K_enable \o Eq \o W_false >>)

\* the raw texts getFileContent may give
Texts ==
    {T_empty, T_comment, T_garbage, T_enableFalse, T_sectionPost, T_bananaPost,
     T_postFive, T_quotedTrue, T_spaced, T_statsList, T_statsX, T_deepLeaf,
     T_protoStats, T_protoEnable, T_protoA, T_ctorX, T_ctorXY}
    \cup {LeafThenPath(v) : v \in LeafValues}

\* the repository identifiers createConfig may be called with
Repositories == {<<"o","/","r">>, <<"o">>, <<"/","r">>, <<"o","/">>}

\* how many createConfig calls the process makes
MaxCalls == 2

Calls == 1..MaxCalls

(***************************************************************************)
(* The resolver as a state machine                                         *)
(***************************************************************************)

\* no push event has been delivered
NoPush ==
    /\ pushPc = "idle"
    /\ payload = <<>>
    /\ pushConfig = NoConfig
    /\ commitAt = 0
    /\ trace = <<>>
    /\ blueskyEnv = TRUE

\* generateWeeklyStats has not been called
NoStats ==
    /\ statsPc = "idle"
    /\ repos = <<>>
    /\ taskPc = <<>>
    /\ taskConfig = <<>>
    /\ activeRepos = 0
    /\ tracked = 0

NotFetched == [how |-> "none", text |-> <<>>]

Init ==
    /\ heap = InitialHeap
    /\ pc = [c \in Calls |-> "idle"]
    /\ repoOf = [c \in Calls |-> <<>>]
    /\ fetched = [c \in Calls |-> NotFetched]
    /\ result = [c \in Calls |-> NoConfig]
    /\ parsed = [c \in Calls |-> NotParsed]
    /\ vIn = <<>>
    /\ vOut = Undef
    /\ raw = <<>>
    /\ merging = Undef
    /\ NoPush
    /\ NoStats

\* createConfig(repository) runs to its await, or returns the default for an
\* identifier that has no owner or no name
Call(c, repository) ==
    /\ pc[c] = "idle"
    /\ repoOf' = [repoOf EXCEPT ![c] = repository]
    /\ IF splitRepository(repository).valid
       THEN /\ pc' = [pc EXCEPT ![c] = "fetching"]
            /\ UNCHANGED result
       ELSE /\ pc' = [pc EXCEPT ![c] = "returned"]
            /\ result' = [result EXCEPT ![c] = getConfig(heap)]
    /\ UNCHANGED <<heap, fetched, parsed, vIn, vOut, raw, merging>>
    /\ UNCHANGED <<pushVars, statsVars>>

\* call c runs from its await to its end, r being what createConfigResume gave
Resume(c, r) ==
    /\ heap' = r.h
    /\ pc' = [pc EXCEPT ![c] = r.pc]
    /\ result' = [result EXCEPT ![c] = r.result]
    /\ parsed' = [parsed EXCEPT ![c] = r.parsed]

\* getFileContent resolves with text and createConfig runs to its end
FetchOk(c, text) ==
    /\ pc[c] = "fetching"
    /\ Resume(c, createConfigResume(heap, [ok |-> TRUE, text |-> text]))
    /\ fetched' = [fetched EXCEPT ![c] = [how |-> "ok", text |-> text]]
    /\ UNCHANGED <<repoOf, vIn, vOut, raw, merging>>
    /\ UNCHANGED <<pushVars, statsVars>>

\* getFileContent throws and createConfig runs to its end
FetchFail(c) ==
    /\ pc[c] = "fetching"
    /\ Resume(c, createConfigResume(heap, [ok |-> FALSE, text |-> <<>>]))
    /\ fetched' = [fetched EXCEPT ![c] = [how |-> "fail", text |-> <<>>]]
    /\ UNCHANGED <<repoOf, vIn, vOut, raw, merging>>
    /\ UNCHANGED <<pushVars, statsVars>>

Next ==
    \/ \E c \in Calls, repository \in Repositories : Call(c, repository)
    \/ \E c \in Calls, text \in Texts : FetchOk(c, text)
    \/ \E c \in Calls : FetchFail(c)

Spec == Init /\ [][Next]_vars

(***************************************************************************)
(* parseValue on its own: the raw value is drawn from ValueInputs and the  *)
(* one step infers its value                                               *)
(***************************************************************************)

Quoted(q, w) == <<q>> \o w \o <<q>>

W_TRUE  == <<"T","R","U","E">>
W_False == <<"F","a","l","s","e">>
W_42    == <<"4","2">>
W_3_14  == <<"3",".","1","4">>

\* the values the specification gives as examples, and their neighbours
ValueExamples ==
    {W_true, W_TRUE, W_false, W_False, W_42, W_3_14,
     <<"1",",","2",",","3">>, <<"a",",","b">>, <<"1",","," ","a",",","t","r","u","e">>,
     Quoted("\"", W_hello), Quoted("'", W_hello), W_hello,
     Quoted("\"", W_true), Quoted("'", W_TRUE), Quoted("\"", W_false),
     Quoted("\"", W_42), Quoted("\"", <<"a",",","b">>)}

\* the pieces the other raw values are made of
ValueTokens ==
    {W_true, W_TRUE, W_false, W_42, <<"1">>, <<".">>, <<",">>, <<"a">>,
     <<"\"">>, <<"'">>, <<" ">>}

\* how many pieces a raw value is made of at most
MaxTokens == 3

\* the concatenations of at most n pieces
RECURSIVE TokenStrings(_)
TokenStrings(n) ==
    IF n = 0 THEN {<<>>}
    ELSE {<<>>} \cup {t \o s : t \in ValueTokens, s \in TokenStrings(n - 1)}

\* the raw values parseValue may be handed: the regular expression of the
\* key/value line gives it at least one character
ValueInputs == (ValueExamples \cup TokenStrings(MaxTokens)) \ {<<>>}

Pending == <<"pending", 0>>

InitValue ==
    /\ heap = InitialHeap
    /\ pc = [c \in Calls |-> "idle"]
    /\ repoOf = [c \in Calls |-> <<>>]
    /\ fetched = [c \in Calls |-> NotFetched]
    /\ result = [c \in Calls |-> NoConfig]
    /\ parsed = [c \in Calls |-> NotParsed]
    /\ vIn \in ValueInputs
    /\ vOut = Pending
    /\ raw = <<>>
    /\ merging = Undef
    /\ NoPush
    /\ NoStats

\* this.parseValue(value)
Infer ==
    /\ vOut = Pending
    /\ vOut' = parseValue(vIn)
    /\ UNCHANGED <<heap, pc, repoOf, fetched, result, parsed, vIn, raw, merging>>
    /\ UNCHANGED <<pushVars, statsVars>>

NextValue == Infer

SpecValue == InitValue /\ [][NextValue]_vars

(***************************************************************************)
(* parseContent on its own: the raw text is drawn from ContentInputs and   *)
(* the one step parses it in a process that has resolved nothing yet       *)
(***************************************************************************)

Header(name) == <<"[">> \o name \o <<"]">>

L_enableFalse == K_enable \o Eq \o W_false
L_post        == W_postToBluesky \o Eq \o W_false
L_dottedPost  == K_post \o Eq \o W_false
L_x           == <<"x","=","1">>
L_equals      == <<"a","=","b","=","c">>
L_deepLeaf    == K_enable \o <<".","x",".","y","=","1">>
L_statsList   == W_stats \o <<"=","1",",","2">>
L_protoLeaf   == W_proto \o <<".","a","=","5">>

\* the lines the raw texts are made of: section headers (one of them with
\* an '=' in its name), key/value lines (one of them with a path through
\* __proto__)
ContentLines ==
    {Header(W_github \o Dot \o W_commits), Header(W_github), Header(W_commits),
     Header(<<"a","=","b">>),
     L_post, L_x, L_equals, L_deepLeaf, L_statsList, L_enableFalse,
     L_protoLeaf}

\* how many lines a raw text has at most
MaxLines == 3

\* the sequences of at most n lines
RECURSIVE LineSeqs(_)
LineSeqs(n) ==
    IF n = 0 THEN {<<>>}
    ELSE {<<>>} \cup {<<l>> \o s : l \in ContentLines, s \in LineSeqs(n - 1)}

\* the raw texts parseContent may be handed
ContentInputs == {Joined(ls) : ls \in LineSeqs(MaxLines)}

\* no parseContent has run on raw yet
ToMerge == [how |-> "pending"]

InitContent ==
    /\ heap = InitialHeap
    /\ pc = [c \in Calls |-> "idle"]
    /\ repoOf = [c \in Calls |-> <<>>]
    /\ fetched = [c \in Calls |-> NotFetched]
    /\ result = [c \in Calls |-> NoConfig]
    /\ parsed = [c \in Calls |-> NotParsed]
    /\ vIn = <<>>
    /\ vOut = Undef
    /\ raw \in ContentInputs
    /\ merging = ToMerge
    /\ NoPush
    /\ NoStats

\* parser.parseContent(content)
ParseContent ==
    /\ merging.how = "pending"
    /\ merging' = parseContent(heap, raw)
    /\ UNCHANGED <<heap, pc, repoOf, fetched, result, parsed, vIn, vOut, raw>>
    /\ UNCHANGED <<pushVars, statsVars>>

NextContent == ParseContent

SpecContent == InitContent /\ [][NextContent]_vars

(***************************************************************************)
(* What the properties below read                                          *)
(***************************************************************************)

Returned(c) == pc[c] = "returned"

TheDefault == ConfigOf("default", Bool(TRUE), Bool(TRUE))

\* what the parsed structural object holds at a path of own properties:
\* a leaf value, a subtree, or undefined
RECURSIVE TreeAt(_, _)
TreeAt(tree, path) ==
    IF path = <<>> THEN tree
    ELSE IF tree[1] \in {"object", "array", "function"} /\ Head(path) \in DOMAIN tree[2]
    THEN TreeAt(tree[2][Head(path)], Tail(path))
    ELSE Undef

ParsedEnable(c) == TreeAt(parsed[c].obj, <<W_stats, W_enable>>)
ParsedPost(c)   == TreeAt(parsed[c].obj, <<W_github, W_commits, W_postToBluesky>>)

\* the raw text set a value that is not a boolean at a declared field
WrongType(v) == v[1] \notin {"bool", "undef"}

Inferred == vOut # Pending

IsBooleanWord(t) == toLowerCase(t) \in {W_true, W_false}

One   == Num(<<1, 0>>)
Two   == Num(<<2, 0>>)
Three == Num(<<3, 0>>)

(***************************************************************************)
(* The properties                                                          *)
(***************************************************************************)

\* C1: createConfig never rejects and lets no exception reach its caller:
\* whatever the repository identifier, the fetch outcome and the raw text,
\* a call that has gone past its await has returned a configuration.
C1_NeverRejects ==
    \A c \in Calls :
        /\ pc[c] \in {"idle", "fetching", "returned"}
        /\ fetched[c].how # "none" => Returned(c)
        /\ Returned(c) => result[c].src \in {"default", "validated"}

\* C1 witness: a call whose fetch failed and a call whose parse threw in the
\* path assigner have both returned.
C1_Witness ==
    \E c, d \in Calls :
        /\ Returned(c) /\ fetched[c].how = "fail"
        /\ Returned(d) /\ parsed[d].how = "assign"

\* C2: every configuration createConfig returns holds both declared fields,
\* github.commits.postToBluesky and stats.enable, and each is a boolean.
C2_BothBoolean ==
    \A c \in Calls :
        Returned(c) =>
            /\ TagOf(result[c].postToBluesky) = "bool"
            /\ TagOf(result[c].enable) = "bool"

\* C2 witness: a validated configuration was returned for a text that sets
\* neither declared field, and a number at a declared field was turned down.
C2_Witness ==
    \E c, d \in Calls :
        /\ Returned(c) /\ fetched[c].text = T_statsX /\ result[c].src = "validated"
        /\ Returned(d) /\ fetched[d].text = T_postFive /\ parsed[d].how = "schema"

\* C3: whenever the fetch fails, createConfig returns exactly the default
\* configuration, postToBluesky = true and enable = true.
C3_FetchFailureDefault ==
    \A c \in Calls :
        fetched[c].how = "fail" => Returned(c) /\ result[c] = TheDefault

\* C3 witness: a fetch has failed in a process where another call resolved
\* a text that writes to Object.prototype.
C3_Witness ==
    \E c, d \in Calls :
        /\ Returned(c) /\ fetched[c].how = "fail"
        /\ Returned(d) /\ fetched[d].text = T_protoEnable

\* C4 as the specification states it: a wrong-typed declared field takes its
\* default alone, and the other declared field keeps the boolean the same
\* raw text gave it.
C4_PerFieldFallback ==
    \A c \in Calls :
        /\ Returned(c) /\ WrongType(ParsedEnable(c)) /\ TagOf(ParsedPost(c)) = "bool"
           => result[c].enable = Bool(TRUE) /\ result[c].postToBluesky = ParsedPost(c)
        /\ Returned(c) /\ WrongType(ParsedPost(c)) /\ TagOf(ParsedEnable(c)) = "bool"
           => result[c].postToBluesky = Bool(TRUE) /\ result[c].enable = ParsedEnable(c)

\* C4 (amended): when the raw text gives a declared field a value of the
\* wrong type, the whole configuration is replaced by the defaults: the
\* call returns the default configuration, both fields true, whatever the
\* same text gave the other field.
C4_WholeFallback ==
    \A c \in Calls :
        Returned(c) /\ (WrongType(ParsedEnable(c)) \/ WrongType(ParsedPost(c)))
            => result[c] = TheDefault

\* C4 witness: stats.enable=banana with github.commits.postToBluesky=false
\* was resolved, the schema turned it down, and postToBluesky came back true.
C4_Witness ==
    \E c \in Calls :
        /\ Returned(c) /\ fetched[c].text = T_bananaPost
        /\ parsed[c].how = "schema"
        /\ ParsedPost(c) = Bool(FALSE)
        /\ result[c].postToBluesky = Bool(TRUE)

\* C5: after any sequence of resolutions the default configuration object
\* and its nested objects are as they were created: postToBluesky = true,
\* enable = true, and no other field.
C5_DefaultNeverMutated ==
    \A n \in DOMAIN DefaultConfigObjects :
        heap[AddrOf(n)] = DefaultConfigObjects[n]

\* C5 witness: a merge has overridden a default in its result, and another
\* resolution has written outside its own parsed object.
C5_Witness ==
    /\ \E c \in Calls : Returned(c) /\ result[c].src = "validated"
                        /\ result[c].enable = Bool(FALSE)
    /\ heap # InitialHeap

\* C6 as the specification states it: the configuration returned for a raw
\* text is the one that text gives in a process that has resolved nothing
\* else, whatever was resolved before it.
C6_Independent ==
    \A c \in Calls :
        Returned(c) /\ fetched[c].how = "ok"
            => result[c] = createConfigResume(InitialHeap,
                               [ok |-> TRUE, text |-> fetched[c].text]).result

\* C7 as the specification states it: the raw value "true", double quotes
\* included, is inferred as the boolean true.
C7_QuotedIsBoolean ==
    Inferred /\ vIn = Quoted("\"", W_true) => vOut = Bool(TRUE)

\* C7 (amended): quotes are stripped only by the string rule, which is
\* reached after the boolean, number and list checks have failed on the
\* text with its quotes; so a boolean word in quotes is inferred as the
\* string of that word, quotes removed, and not as a boolean.
C7_QuotedIsString ==
    \A q \in Quotes, w \in {W_true, W_TRUE, W_false} :
        Inferred /\ vIn = Quoted(q, w) => vOut = Str(w)

\* C7 witness: "true" in double quotes was inferred as the string true.
C7_Witness ==
    vIn = Quoted("\"", W_true) /\ vOut = Str(W_true)

\* C8: parseValue gives the result of the first matching rule in the order
\* boolean, number, list, string: a case-insensitive true/false is a
\* boolean; otherwise a text that converts to a number as a whole is that
\* number; otherwise a text with a comma is the list of its trimmed
\* segments, each inferred by the same rules; otherwise a string.  true and
\* TRUE give true, 42 gives 42, 3.14 gives 3.14, 1,2,3 gives [1,2,3], a,b
\* gives ["a","b"] and "hello" in double quotes gives the string hello.
C8_RuleOrder ==
    Inferred =>
        /\ CASE IsBooleanWord(trim(vIn)) ->
                   vOut = Bool(toLowerCase(trim(vIn)) = W_true)
             [] ~IsBooleanWord(trim(vIn)) /\ StringToNumber(trim(vIn)).ok ->
                   vOut = Num(StringToNumber(trim(vIn)).v)
             [] /\ ~IsBooleanWord(trim(vIn)) /\ ~StringToNumber(trim(vIn)).ok
                /\ includes(trim(vIn), ",") ->
                   /\ TagOf(vOut) = "list"
                   /\ Len(ValOf(vOut)) = Len(split(trim(vIn), ","))
                   /\ \A i \in 1..Len(ValOf(vOut)) :
                         ValOf(vOut)[i] = parseValue(trim(split(trim(vIn), ",")[i]))
             [] OTHER -> TagOf(vOut) = "str"
        /\ vIn \in {W_true, W_TRUE} => vOut = Bool(TRUE)
        /\ vIn = W_42 => vOut = Num(<<42, 0>>)
        /\ vIn = W_3_14 => vOut = Num(<<314, 2>>)
        /\ vIn = <<"1",",","2",",","3">> => vOut = List(<<One, Two, Three>>)
        /\ vIn = <<"a",",","b">> => vOut = List(<<Str(<<"a">>), Str(<<"b">>)>>)
        /\ vIn = Quoted("\"", W_hello) => vOut = Str(W_hello)

\* C8 witness: a list that mixes types was inferred: 1, a, true gave the
\* number 1, the string a and the boolean true.
C8_Witness ==
    /\ vIn = <<"1",","," ","a",",","t","r","u","e">>
    /\ vOut = List(<<One, Str(<<"a">>), Bool(TRUE)>>)

\* C9 as the specification states it: the line 'stats.enable = false', with
\* spaces on both sides of '=', sets the path stats.enable to false as
\* 'stats.enable=false' does.
C9_KeyTrimmed ==
    \A c \in Calls :
        Returned(c) /\ fetched[c].text = T_spaced /\ parsed[c].how = "ok"
            => ParsedEnable(c) = Bool(FALSE) /\ result[c].enable = Bool(FALSE)

\* C10 as the specification states it: a path through a segment that holds
\* a leaf value (a=5, then a.b=1) overwrites the leaf with a new mapping
\* and stores the value under it; the assignment does not fail and the
\* lines after it are still parsed.
C10_LeafOverwritten ==
    \A c \in Calls, leaf \in LeafValues :
        Returned(c) /\ fetched[c].text = LeafThenPath(leaf)
            => /\ parsed[c].how # "assign"
               /\ TreeAt(parsed[c].obj, <<<<"a">>, <<"b">>>>) = One
               /\ ParsedEnable(c) = Bool(FALSE)

(***************************************************************************)
(* What the properties of parseContent on its own read                     *)
(***************************************************************************)

\* parseContent has run on raw
Merged == merging.how # "pending"

\* the loop over the lines ended without an exception
Looped == Merged /\ merging.how # "assign"

\* the structural object the loop built, as a tree
Structure == Snapshot(merging.looped, Ref(merging.obj), SnapDepth)

\* the structural object the loop builds from a text in a fresh process
StructureOf(text) ==
    LET loop == parseLines(Alloc(InitialHeap, PlainObject(NoProps)),
                           NewAddr(InitialHeap), split(text, "\n"), 1, <<>>)
    IN  Snapshot(loop.h, Ref(NewAddr(InitialHeap)), SnapDepth)

\* mergedConfig as a tree
MergedConfig == Snapshot(merging.h, Ref(merging.merged), SnapDepth)

\* C11 as the specification states it: deepMerge is total: for the default
\* configuration and every structural object the parser builds, mappings
\* under a boolean leaf of the default included (stats.enable.x.y=1), it
\* returns a merged object and never throws.
C11_MergeTotal ==
    Looped => merging.how # "merge" /\ merging.merged # 0

\* call c is the only one that has parsed a text so far
FirstToParse(c) == \A d \in Calls \ {c} : fetched[d].how # "ok"

\* C12 as the specification states it: lines that assign only paths the
\* schema does not declare never make a resolution fail and never show in
\* the result: stats.enable=false together with the undeclared a=..., a.b=1
\* or __proto__.a=5 resolves to what stats.enable=false alone resolves to.
C12_UndeclaredIgnored ==
    \A c \in Calls :
        /\ Returned(c) /\ FirstToParse(c)
        /\ fetched[c].text \in {LeafThenPath(leaf) : leaf \in LeafValues} \cup {T_protoA}
        => /\ parsed[c].how = "ok"
           /\ result[c] = createConfigResume(InitialHeap,
                              [ok |-> TRUE, text |-> T_enableFalse]).result

\* the trimmed lines of a text
LinesOf(text) ==
    LET lines == split(text, "\n")
    IN  [i \in 1..Len(lines) |-> trim(lines[i])]

IsSkipped(t)    == t = <<>> \/ t[1] = "#"
IsHeaderLine(t) == ~IsSkipped(t) /\ sectionMatch(t).ok
IsPairLine(t)   == ~IsSkipped(t) /\ ~sectionMatch(t).ok /\ kvMatch(t).ok

\* the name of the last section header above line i, empty when there is none
HeaderBefore(ls, i) ==
    IF \E j \in 1..(i - 1) : IsHeaderLine(ls[j])
    THEN sectionMatch(ls[CHOOSE j \in 1..(i - 1) :
                            /\ IsHeaderLine(ls[j])
                            /\ \A k \in (j + 1)..(i - 1) : ~IsHeaderLine(ls[k])]).name
    ELSE <<>>

\* the key of key/value line i, qualified by the header above it
QualifiedKey(ls, i) ==
    IF HeaderBefore(ls, i) = <<>> THEN kvMatch(ls[i]).key
    ELSE HeaderBefore(ls, i) \o Dot \o kvMatch(ls[i]).key

\* key/value line i written as one dotted line with no header; any other
\* line becomes a blank line
DottedLine(ls, i) ==
    IF IsPairLine(ls[i]) THEN QualifiedKey(ls, i) \o Eq \o kvMatch(ls[i]).value
    ELSE <<>>

\* a text with every key/value line written as a dotted line with no header
DottedText(text) ==
    LET ls == LinesOf(text)
    IN  Joined([i \in 1..Len(ls) |-> DottedLine(ls, i)])

\* the dotted line for line i is read back as the same key and value
ReadsBack(ls, i) ==
    IsPairLine(ls[i]) =>
        /\ IsPairLine(trim(DottedLine(ls, i)))
        /\ kvMatch(trim(DottedLine(ls, i))).key = QualifiedKey(ls, i)
        /\ kvMatch(trim(DottedLine(ls, i))).value = kvMatch(ls[i]).value

Leaf(name, v) == <<"object", name :> v>>

\* C13 as the specification states it: a pair k=v under a header [s] is
\* placed exactly where the line s.k=v with no header is placed, for every
\* header and pair: the text and its dotted form build the same structure.
C13_SectionIsDotted ==
    Merged => Structure = StructureOf(DottedText(raw))

\* C13 (amended): a pair k=v under a header [s] is placed exactly where the
\* line s.k=v with no header is placed, provided that line is itself read
\* as the key s.k and the value v (it is not when s holds an '=', since the
\* first '=' of the dotted line then falls inside s).  [github.commits]
\* followed by postToBluesky=false builds
\* {github:{commits:{postToBluesky:false}}}, as
\* github.commits.postToBluesky=false does.
C13_SectionIsDottedWhenReadBack ==
    /\ Merged /\ (LET ls == LinesOf(raw) IN \A i \in 1..Len(ls) : ReadsBack(ls, i))
       => Structure = StructureOf(DottedText(raw))
    /\ Merged /\ raw = Joined(<<Header(W_github \o Dot \o W_commits), L_post>>)
       => Structure = Leaf(W_github, Leaf(W_commits, Leaf(W_postToBluesky, Bool(FALSE))))

\* C13 witness: [github.commits] followed by postToBluesky=false was parsed
\* and built the structure of the dotted line.
C13_Witness ==
    /\ raw = Joined(<<Header(W_github \o Dot \o W_commits), L_post>>)
    /\ Merged
    /\ Structure = StructureOf(L_dottedPost)
    /\ StructureOf(L_dottedPost)
           = Leaf(W_github, Leaf(W_commits, Leaf(W_postToBluesky, Bool(FALSE))))

\* the default configuration as a tree
DefaultTree == Snapshot(InitialHeap, Ref(defaultConfig), SnapDepth)

IsMapping(tree) == tree[1] = "object"

\* the merge the specification describes, on trees: where both sides hold
\* mappings it recurses key by key, and anywhere else the parsed side wins
RECURSIVE TreeMerge(_, _)
TreeMerge(d, p) ==
    IF IsMapping(d) /\ IsMapping(p)
    THEN <<"object",
           [k \in (DOMAIN d[2]) \cup (DOMAIN p[2]) |->
               IF k \in DOMAIN d[2] /\ k \in DOMAIN p[2]
               THEN TreeMerge(d[2][k], p[2][k])
               ELSE IF k \in DOMAIN p[2] THEN p[2][k] ELSE d[2][k]]>>
    ELSE p

\* C14 as the specification states it: the merged object takes, at every
\* key, the parsed object's value when the parsed object has the key and
\* the default's value otherwise, recursing where both sides hold mappings;
\* an empty parsed object gives an object equal to the default.
C14_ParsedWins ==
    Looped /\ merging.merged # 0 => MergedConfig = TreeMerge(DefaultTree, Structure)

\* C15: a call of deepMerge leaves both of its arguments unchanged: every
\* object that existed when it was called (the default object, the parsed
\* object, every object nested in them, and the built-in objects) holds
\* after the call exactly what it held before; deepMerge writes only into
\* the objects it creates.
C15_ArgumentsUnchanged ==
    Looped =>
        /\ DOMAIN merging.looped \subseteq DOMAIN merging.h
        /\ \A a \in DOMAIN merging.looped : merging.h[a] = merging.looped[a]

\* C15 witness: deepMerge has merged stats.enable=false into the default:
\* its result differs from the default, and so does the parsed object.
C15_Witness ==
    /\ raw = L_enableFalse
    /\ merging.how = "ok"
    /\ MergedConfig = TreeMerge(DefaultTree, Structure)
    /\ MergedConfig # DefaultTree
    /\ DOMAIN merging.h # DOMAIN merging.looped

\* the first and last characters of t are the same kind of quote
MatchingQuotes(t) == Len(t) >= 2 /\ t[1] \in Quotes /\ t[Len(t)] = t[1]

\* C16 as the specification states it: in the string rule the surrounding
\* quotes are stripped only when the first and last characters are a
\* matching pair, and one layer only; a value that opens with one kind of
\* quote and closes with the other keeps its quotes.
C16_MatchingPairOnly ==
    Inferred /\ TagOf(vOut) = "str" =>
        IF MatchingQuotes(trim(vIn))
        THEN vOut \in {Str(trim(vIn)), Str(SubSeq(trim(vIn), 2, Len(trim(vIn)) - 1))}
        ELSE vOut = Str(trim(vIn))

\* C17 as the specification states it: the number rule applies to
\* non-empty strings only: an empty segment of a comma-separated value
\* (a, or 1,,2) is not inferred as a number.
C17_EmptyIsNoNumber ==
    Inferred /\ TagOf(vOut) = "list" =>
        \A i \in 1..Len(ValOf(vOut)) :
            trim(split(trim(vIn), ",")[i]) = <<>> => TagOf(ValOf(vOut)[i]) # "num"

\* the index of the first '=' of a line that has one
FirstEquals(t) ==
    CHOOSE i \in 1..Len(t) : t[i] = "=" /\ \A j \in 1..(i - 1) : t[j] # "="

\* the text of t after index i
After(t, i) == SubSeq(t, i + 1, Len(t))

\* t has the form key=value with a key and with an '=' in the value
EqualsInValue(t) ==
    /\ ~IsSkipped(t) /\ ~sectionMatch(t).ok
    /\ includes(t, "=") /\ FirstEquals(t) >= 2
    /\ includes(After(t, FirstEquals(t)), "=")

\* C18: on a key/value line only the first '=' separates key from value:
\* for every line key=value whose value holds an '=', the key is the text
\* before the first '=' and the value all the text after it, and the value
\* is placed at that key's path.
C18_FirstEqualsSeparates ==
    Merged =>
        LET ls == LinesOf(raw)
        IN  \A i \in 1..Len(ls) :
                EqualsInValue(ls[i]) =>
                    /\ kvMatch(ls[i]).ok
                    /\ kvMatch(ls[i]).key = SubSeq(ls[i], 1, FirstEquals(ls[i]) - 1)
                    /\ kvMatch(ls[i]).value = After(ls[i], FirstEquals(ls[i]))
                    /\ Looped =>
                          TreeAt(Structure, split(QualifiedKey(ls, i), "."))
                              = parseValue(After(ls[i], FirstEquals(ls[i])))

\* C18 witness: the line a=b=c was parsed and set a to the string b=c.
C18_Witness ==
    /\ raw = L_equals
    /\ Looped
    /\ Structure = Leaf(<<"a">>, Str(<<"b","=","c">>))

\* p is a prefix of q
IsPrefix(p, q) == Len(p) <= Len(q) /\ SubSeq(q, 1, Len(p)) = p

\* the path of key/value line i: its qualified key split at the dots
PathOf(ls, i) == split(QualifiedKey(ls, i), ".")

\* no key/value line after line i writes at, above or below the path of line i
LastWriter(ls, i) ==
    \A j \in (i + 1)..Len(ls) :
        IsPairLine(ls[j]) =>
            /\ ~IsPrefix(PathOf(ls, i), PathOf(ls, j))
            /\ ~IsPrefix(PathOf(ls, j), PathOf(ls, i))

\* the value at a path of own properties, undefined when there is none
RECURSIVE OwnAt(_, _, _)
OwnAt(h, v, path) ==
    IF path = <<>> THEN v
    ELSE IF IsRef(v) /\ Head(path) \in DOMAIN h[ValOf(v)].props
    THEN OwnAt(h, h[ValOf(v)].props[Head(path)], Tail(path))
    ELSE Undef

\* the structural object holds the value pv of parseValue at the path
PlacedAt(path, pv) ==
    LET got  == OwnAt(merging.looped, Ref(merging.obj), path)
        made == Materialise(InitialHeap, pv)
    IN  Snapshot(merging.looped, got, 1) = Snapshot(made.h, made.v, 1)

\* C19: at every key/value line the qualified path is the bare key when no
\* section header stands earlier in the text, and otherwise the name of the
\* most recent header, '.', and the key; a later header replaces the earlier
\* one and is never appended to it. Read on the parsed structure: the value
\* of every key/value line that no later line overwrites, and whose path
\* names own properties only, stands at that path.
C19_LatestHeaderQualifies ==
    Looped =>
        LET ls == LinesOf(raw)
        IN  \A i \in 1..Len(ls) :
                (/\ IsPairLine(ls[i])
                 /\ (\A n \in 1..Len(PathOf(ls, i)) : PathOf(ls, i)[n] # W_proto)
                 /\ LastWriter(ls, i))
                    => PlacedAt(PathOf(ls, i), parseValue(kvMatch(ls[i]).value))

\* C19 witness: after [github] and then [commits], x=1 was placed at
\* commits.x and nothing at github.
C19_Witness ==
    /\ raw = Joined(<<Header(W_github), Header(W_commits), L_x>>)
    /\ Looped
    /\ Structure = Leaf(W_commits, Leaf(<<"x">>, parseValue(<<"1">>)))

\* the identifier has no '/', or nothing before its first '/', or nothing
\* between its first '/' and the next one or the end
BadIdentifier(r) ==
    \/ ~includes(r, "/")
    \/ FirstIndex(r, {"/"}) = 1
    \/ FirstIndex(r, {"/"}) = Len(r)
    \/ r[FirstIndex(r, {"/"}) + 1] = "/"

\* C20: when the repository identifier does not split on '/' into a
\* non-empty owner and a non-empty repository name, createConfig returns the
\* default configuration, without calling getFileContent and without
\* raising an error.
C20_BadIdentifierDefault ==
    \A c \in Calls :
        pc[c] # "idle" /\ BadIdentifier(repoOf[c])
            => /\ Returned(c)
               /\ fetched[c] = NotFetched
               /\ result[c] = TheDefault

\* C20 witness: createConfig('o/') has returned with nothing fetched, in a
\* process where another call fetched and resolved a text.
C20_Witness ==
    \E c, d \in Calls :
        /\ Returned(c) /\ repoOf[c] = <<"o","/">> /\ fetched[c] = NotFetched
        /\ Returned(d) /\ fetched[d].how = "ok"

(***************************************************************************)
(* The push handler (src/src/index.ts) and createCommit                    *)
(* (src/src/events/push.ts): one delivery of a push event, from the call   *)
(* of the handler to its end.  Every await is a step; what runs between    *)
(* two awaits runs in one step.                                            *)
(***************************************************************************)

configVars == <<pc, repoOf, fetched, result, parsed, vIn, vOut, raw, merging>>

\* how many commits a push payload holds at most
MaxCommits == 2

\* a commit of the payload: whether commit.author.username is there
Commits == [username : BOOLEAN]

RECURSIVE CommitSeqs(_)
CommitSeqs(n) ==
    IF n = 0 THEN {<<>>}
    ELSE CommitSeqs(n - 1)
         \cup {Append(q, c) : q \in {q \in CommitSeqs(n - 1) : Len(q) = n - 1},
                              c \in Commits}

\* the payloads of a push event: repository.private, repository.owner.login,
\* repository.owner.name (empty when it is missing), repository.name and
\* the commits
Payloads ==
    [private : BOOLEAN,
     login   : {<<>>, <<"o">>},
     name    : {<<>>, <<"n">>},
     repo    : {<<"r">>},
     commits : CommitSeqs(MaxCommits)]

\* a text that writes postToBluesky into Object.prototype
T_protoPost == W_proto \o Dot \o W_postToBluesky \o Eq \o W_false

\* the raw texts getFileContent may give to the push handler
PushTexts == {T_empty, T_sectionPost, T_postFive, T_garbage}

\* the heaps a push may find: a fresh process, and a process in which an
\* earlier resolution wrote into Object.prototype
PushHeaps ==
    {InitialHeap,
     createConfigResume(InitialHeap, [ok |-> TRUE, text |-> T_protoPost]).h}

\* repository.owner.login || repository.owner.name
ownerOf(pl) == IF pl.login # <<>> THEN pl.login ELSE pl.name

\* a handler that posts whatever the configuration says
commitsAlways(config) == TRUE

\* config.github.commits.postToBluesky, as the handler's if reads it
commitsEnabled(config) == Truthy(config.postToBluesky)

\* a catch around the whole loop: a failure ends the loop
caughtOutsideLoop(i, n) == n + 1

\* the catch inside the loop body: the loop goes on with the next commit
caughtInLoop(i, n) == i + 1

\* where the handler is next, with what it has done
Handler(at, i, tr) == [pc |-> at, at |-> i, trace |-> tr]

\* the head of the loop at commit i: the end of the handler, or the call of
\* octokit.repos.getCommit
loopAt(i, commits, tr) ==
    IF i > Len(commits) THEN Handler("done", i, tr)
    ELSE Handler("getCommit", i, Append(tr, <<"getCommit", i>>))

\* the handler from the return of createConfig to its next await
afterConfig(config, commits) ==
    IF ~commitsEnabled(config) THEN Handler("done", 0, <<>>)
    ELSE loopAt(1, commits, <<>>)

\* the catch block of the loop body, and the loop from there
caught(i, commits, tr) ==
    loopAt(caughtInLoop(i, Len(commits)), commits, Append(tr, <<"caught", i>>))

\* createCommit from the settling of loadImage to the await in createPost:
\* drawing or writing the image throws, or BlueskyService.createPost is
\* called, which throws when the credentials are not set
createCommit(i, commits, tr, rendered, env) ==
    IF ~rendered THEN caught(i, commits, tr)
    ELSE IF ~env THEN caught(i, commits, Append(tr, <<"createPost", i>>))
    ELSE Handler("posting", i, Append(tr, <<"createPost", i>>))

Advance(n) ==
    /\ pushPc' = n.pc
    /\ commitAt' = n.at
    /\ trace' = n.trace

InitPush ==
    /\ heap \in PushHeaps
    /\ pc = [c \in Calls |-> "idle"]
    /\ repoOf = [c \in Calls |-> <<>>]
    /\ fetched = [c \in Calls |-> NotFetched]
    /\ result = [c \in Calls |-> NoConfig]
    /\ parsed = [c \in Calls |-> NotParsed]
    /\ vIn = <<>>
    /\ vOut = Undef
    /\ raw = <<>>
    /\ merging = Undef
    /\ pushPc = "idle"
    /\ payload = <<>>
    /\ pushConfig = NoConfig
    /\ commitAt = 0
    /\ trace = <<>>
    /\ blueskyEnv \in BOOLEAN
    /\ NoStats

\* the handler is called with a payload and runs to its first await, in
\* createConfig, or returns
Push(pl) ==
    /\ pushPc = "idle"
    /\ payload' = pl
    /\ IF pl.private \/ ownerOf(pl) = <<>>
       THEN /\ pushPc' = "done"
            /\ UNCHANGED <<pushConfig, commitAt, trace>>
       ELSE IF splitRepository(ownerOf(pl) \o <<"/">> \o pl.repo).valid
       THEN /\ pushPc' = "config"
            /\ UNCHANGED <<pushConfig, commitAt, trace>>
       ELSE /\ pushConfig' = getConfig(heap)
            /\ Advance(afterConfig(getConfig(heap), pl.commits))
    /\ UNCHANGED <<heap, blueskyEnv, configVars, statsVars>>

\* createConfig runs from its await to its end, r being what
\* createConfigResume gave, and the handler to its next await
PushResumed(r) ==
    /\ heap' = r.h
    /\ pushConfig' = r.result
    /\ IF r.pc = "rejected"
       THEN /\ pushPc' = "rejected"
            /\ UNCHANGED <<commitAt, trace>>
       ELSE Advance(afterConfig(r.result, payload.commits))

\* getFileContent resolves with text
PushConfigOk(text) ==
    /\ pushPc = "config"
    /\ PushResumed(createConfigResume(heap, [ok |-> TRUE, text |-> text]))
    /\ UNCHANGED <<payload, blueskyEnv, configVars, statsVars>>

\* getFileContent throws
PushConfigFail ==
    /\ pushPc = "config"
    /\ PushResumed(createConfigResume(heap, [ok |-> FALSE, text |-> <<>>]))
    /\ UNCHANGED <<payload, blueskyEnv, configVars, statsVars>>

\* octokit.repos.getCommit resolves: the handler asks for the author when
\* the commit names one, and otherwise calls createCommit, which runs to
\* its await of loadImage
GetCommitOk ==
    /\ pushPc = "getCommit"
    /\ pushPc' = IF payload.commits[commitAt].username THEN "getUser" ELSE "avatar"
    /\ UNCHANGED <<heap, payload, pushConfig, commitAt, trace, blueskyEnv,
                   configVars, statsVars>>

\* octokit.repos.getCommit rejects
GetCommitFail ==
    /\ pushPc = "getCommit"
    /\ Advance(caught(commitAt, payload.commits, trace))
    /\ UNCHANGED <<heap, payload, pushConfig, blueskyEnv, configVars, statsVars>>

\* octokit.users.getByUsername resolves; createCommit runs to loadImage
GetUserOk ==
    /\ pushPc = "getUser"
    /\ pushPc' = "avatar"
    /\ UNCHANGED <<heap, payload, pushConfig, commitAt, trace, blueskyEnv,
                   configVars, statsVars>>

\* octokit.users.getByUsername rejects: the inner catch logs it, and
\* createCommit runs to loadImage
GetUserFail ==
    /\ pushPc = "getUser"
    /\ pushPc' = "avatar"
    /\ trace' = Append(trace, <<"userError", commitAt>>)
    /\ UNCHANGED <<heap, payload, pushConfig, commitAt, blueskyEnv,
                   configVars, statsVars>>

\* loadImage settles (a rejection is caught and logged in createCommit) and
\* createCommit runs on to the await in createPost, or throws
LoadImage(loaded, rendered) ==
    /\ pushPc = "avatar"
    /\ Advance(createCommit(commitAt, payload.commits,
                            IF loaded THEN trace
                            ELSE Append(trace, <<"avatarError", commitAt>>),
                            rendered, blueskyEnv))
    /\ UNCHANGED <<heap, payload, pushConfig, blueskyEnv, configVars, statsVars>>

\* the login, the upload and agent.post settle: the post is created, or the
\* failure is caught and logged in createPost; createCommit returns and the
\* loop goes on
Post(ok) ==
    /\ pushPc = "posting"
    /\ Advance(loopAt(commitAt + 1, payload.commits,
                      Append(trace, <<IF ok THEN "posted" ELSE "postError", commitAt>>)))
    /\ UNCHANGED <<heap, payload, pushConfig, blueskyEnv, configVars, statsVars>>

NextPush ==
    \/ \E pl \in Payloads : Push(pl)
    \/ \E text \in PushTexts : PushConfigOk(text)
    \/ PushConfigFail
    \/ GetCommitOk
    \/ GetCommitFail
    \/ GetUserOk
    \/ GetUserFail
    \/ \E loaded, rendered \in BOOLEAN : LoadImage(loaded, rendered)
    \/ \E ok \in BOOLEAN : Post(ok)

SpecPush == InitPush /\ [][NextPush]_vars

(***************************************************************************)
(* What the properties of the push handler read                            *)
(***************************************************************************)

\* the pushed repository is not private, the payload names an owner, and the
\* configuration resolved for the repository has postToBluesky = true
Permitted ==
    /\ pushPc # "idle"
    /\ ~payload.private
    /\ ownerOf(payload) # <<>>
    /\ pushConfig.postToBluesky = Bool(TRUE)

\* the handler did what at commit i
Did(what, i) == \E k \in DOMAIN trace : trace[k] = <<what, i>>

\* the calls of getCommit the handler made, in order
Fetches == SelectSeq(trace, LAMBDA e : e[1] = "getCommit")

\* C21: the push handler fetches a commit, calls createPost or creates a
\* post only when the pushed repository is not private, the payload names an
\* owner and the resolved configuration has github.commits.postToBluesky =
\* true; in every other case it returns with no commit fetched or posted.
C21_PostsOnlyWhenPermitted ==
    /\ trace # <<>> => Permitted
    /\ (pushPc \notin {"idle", "config"} /\ ~Permitted)
          => pushPc = "done" /\ trace = <<>>

\* C21 witness: a commit was posted under a validated configuration, in a
\* process whose Object.prototype an earlier resolution wrote into.
C21_Witness ==
    /\ heap # InitialHeap
    /\ pushConfig.src = "validated"
    /\ Did("posted", 1)

\* C22: the commits of a push are processed one at a time in payload order,
\* and a failure while processing one of them (its fetch, its rendering, its
\* posting) is caught and keeps no later commit from being processed: the
\* handler asks for the commits 1, 2, ... in this order, does nothing for a
\* commit after it has turned to a later one, never rejects, and has asked
\* for every commit of a permitted push when it ends.
C22_EveryCommitInOrder ==
    /\ \A k \in DOMAIN Fetches : Fetches[k][2] = k
    /\ \A m, n \in DOMAIN trace : m < n => trace[m][2] <= trace[n][2]
    /\ pushPc # "rejected"
    /\ pushPc \in {"getCommit", "getUser", "avatar", "posting"}
          => Len(Fetches) = commitAt
    /\ pushPc = "done" /\ Permitted => Len(Fetches) = Len(payload.commits)

\* C22 witness: the first commit failed (its fetch, or its rendering, or
\* createPost threw) and the second one was posted.
C22_Witness ==
    /\ pushPc = "done"
    /\ Did("caught", 1)
    /\ Did("posted", 2)

(***************************************************************************)
(* StatsService.generateWeeklyStats (src/src/services/stats.ts): one call, *)
(* with one task per listed repository, all started together by            *)
(* Promise.all.  Every await is a step of its task.                        *)
(***************************************************************************)

\* how many repositories listForUser gives at most
MaxRepos == 2

\* a listed repository: repo.private and repo.name (the owner is the user)
Repos == [private : BOOLEAN, name : {<<"r">>}]

RECURSIVE RepoSeqs(_)
RepoSeqs(n) ==
    IF n = 0 THEN {<<>>}
    ELSE RepoSeqs(n - 1)
         \cup {Append(q, r) : q \in {q \in RepoSeqs(n - 1) : Len(q) = n - 1},
                              r \in Repos}

\* the raw texts getFileContent may give to a task
StatsTexts == {T_empty, T_enableFalse, T_bananaPost, T_protoEnable}

\* `${repo.owner.login}/${repo.name}`
repoPath(repo) == <<"o", "/">> \o repo.name

\* a task that skips private repositories only
skippedWhenPrivate(repo, config) == repo.private

\* the two early returns of a task: the repository is private, or its
\* configuration has stats disabled
skipped(repo, config) == repo.private \/ ~Truthy(config.enable)

\* every task has finished, so that Promise.all resolves
allFinished(tasks) == \A t \in DOMAIN tasks : tasks[t] = "finished"

\* a task runs to its first await: createConfig awaits getFileContent, or
\* has returned the default for an identifier with no owner or no name
taskStart(repo) ==
    IF splitRepository(repoPath(repo)).valid THEN "config" ELSE "resolved"

InitStats ==
    /\ heap = InitialHeap
    /\ pc = [c \in Calls |-> "idle"]
    /\ repoOf = [c \in Calls |-> <<>>]
    /\ fetched = [c \in Calls |-> NotFetched]
    /\ result = [c \in Calls |-> NoConfig]
    /\ parsed = [c \in Calls |-> NotParsed]
    /\ vIn = <<>>
    /\ vOut = Undef
    /\ raw = <<>>
    /\ merging = Undef
    /\ pushPc = "idle"
    /\ payload = <<>>
    /\ pushConfig = NoConfig
    /\ commitAt = 0
    /\ trace = <<>>
    /\ blueskyEnv \in BOOLEAN
    /\ NoStats

\* the installation is found and listForUser gives rs: the counters are set
\* to zero and every task is started
Generate(rs) ==
    /\ statsPc = "idle"
    /\ statsPc' = "tasks"
    /\ repos' = rs
    /\ taskPc' = [t \in DOMAIN rs |-> taskStart(rs[t])]
    /\ taskConfig' = [t \in DOMAIN rs |->
                         IF taskStart(rs[t]) = "resolved" THEN getConfig(heap)
                         ELSE NoConfig]
    /\ activeRepos' = 0
    /\ UNCHANGED <<heap, tracked, configVars, pushVars>>

\* no installation is found, or a call before the tasks rejects: the outer
\* catch logs it
GenerateFail ==
    /\ statsPc = "idle"
    /\ statsPc' = "failed"
    /\ UNCHANGED <<heap, repos, taskPc, taskConfig, activeRepos, tracked,
                   configVars, pushVars>>

\* createConfig of task t runs from its await to its end, r being what
\* createConfigResume gave; a rejection is caught by the task
TaskResumed(t, r) ==
    /\ heap' = r.h
    /\ taskConfig' = [taskConfig EXCEPT ![t] = r.result]
    /\ taskPc' = [taskPc EXCEPT ![t] = IF r.pc = "rejected" THEN "finished"
                                       ELSE "resolved"]

\* getFileContent resolves with text for task t
TaskConfigOk(t, text) ==
    /\ statsPc = "tasks" /\ t \in DOMAIN taskPc /\ taskPc[t] = "config"
    /\ TaskResumed(t, createConfigResume(heap, [ok |-> TRUE, text |-> text]))
    /\ UNCHANGED <<statsPc, repos, activeRepos, tracked, configVars, pushVars>>

\* getFileContent throws for task t
TaskConfigFail(t) ==
    /\ statsPc = "tasks" /\ t \in DOMAIN taskPc /\ taskPc[t] = "config"
    /\ TaskResumed(t, createConfigResume(heap, [ok |-> FALSE, text |-> <<>>]))
    /\ UNCHANGED <<statsPc, repos, activeRepos, tracked, configVars, pushVars>>

\* task t goes on with its configuration: it returns for a private or a
\* disabled repository, and otherwise increments activeRepos and awaits the
\* three listings
TaskCount(t) ==
    /\ statsPc = "tasks" /\ t \in DOMAIN taskPc /\ taskPc[t] = "resolved"
    /\ IF skipped(repos[t], taskConfig[t])
       THEN /\ taskPc' = [taskPc EXCEPT ![t] = "finished"]
            /\ UNCHANGED activeRepos
       ELSE /\ taskPc' = [taskPc EXCEPT ![t] = "api"]
            /\ activeRepos' = activeRepos + 1
    /\ UNCHANGED <<heap, statsPc, repos, taskConfig, tracked, configVars, pushVars>>

\* the three listings of task t settle: they are counted, or the rejection
\* is caught and logged by the task
TaskListed(t) ==
    /\ statsPc = "tasks" /\ t \in DOMAIN taskPc /\ taskPc[t] = "api"
    /\ taskPc' = [taskPc EXCEPT ![t] = "finished"]
    /\ UNCHANGED <<heap, statsPc, repos, taskConfig, activeRepos, tracked,
                   configVars, pushVars>>

\* Promise.all has resolved: the image is drawn and createPost is called
\* with the text that reports activeRepos; the drawing throws, or createPost
\* throws for missing credentials, and the outer catch logs it
Report(rendered) ==
    /\ statsPc = "tasks" /\ allFinished(taskPc)
    /\ IF rendered /\ blueskyEnv
       THEN /\ statsPc' = "posting"
            /\ tracked' = activeRepos
       ELSE /\ statsPc' = "failed"
            /\ UNCHANGED tracked
    /\ UNCHANGED <<heap, repos, taskPc, taskConfig, activeRepos, configVars, pushVars>>

\* the login and agent.post settle: the post is created, or the failure is
\* caught and logged in createPost
StatsPost(ok) ==
    /\ statsPc = "posting"
    /\ statsPc' = IF ok THEN "posted" ELSE "unposted"
    /\ UNCHANGED <<heap, repos, taskPc, taskConfig, activeRepos, tracked,
                   configVars, pushVars>>

NextStats ==
    \/ \E rs \in RepoSeqs(MaxRepos) : Generate(rs)
    \/ GenerateFail
    \/ \E t \in 1..MaxRepos, text \in StatsTexts : TaskConfigOk(t, text)
    \/ \E t \in 1..MaxRepos : TaskConfigFail(t)
    \/ \E t \in 1..MaxRepos : TaskCount(t)
    \/ \E t \in 1..MaxRepos : TaskListed(t)
    \/ \E rendered \in BOOLEAN : Report(rendered)
    \/ \E ok \in BOOLEAN : StatsPost(ok)

SpecStats == InitStats /\ [][NextStats]_vars

(***************************************************************************)
(* What the properties of generateWeeklyStats read                         *)
(***************************************************************************)

\* the listed repositories that are public with stats.enable = true in the
\* configuration resolved for them
ActiveTasks ==
    {t \in DOMAIN repos : ~repos[t].private /\ taskConfig[t].enable = Bool(TRUE)}

\* the tasks that are past their two checks
CountedTasks == {t \in DOMAIN taskPc : taskPc[t] \in {"api", "finished"}}

\* C23: in generateWeeklyStats, under every interleaving of the tasks
\* started together, when all tasks have finished activeRepos is the number
\* of listed repositories that are public and whose resolved configuration
\* has stats.enable = true: no increment is lost (at every moment the
\* counter is the number of such repositories among the tasks past their
\* checks) and no private or disabled repository is counted; and the stats
\* post is created only after all tasks have finished, with that number.
C23_ActiveReposExact ==
    /\ statsPc # "idle"
          => activeRepos = Cardinality(ActiveTasks \cap CountedTasks)
    /\ statsPc = "tasks" /\ allFinished(taskPc)
          => activeRepos = Cardinality(ActiveTasks)
    /\ statsPc \in {"posting", "posted", "unposted"}
          => allFinished(taskPc) /\ tracked = Cardinality(ActiveTasks)

\* C23 witness: the post was created for two listed repositories of which
\* one is public with stats enabled and the other public with stats
\* disabled by its configuration.
C23_Witness ==
    /\ statsPc = "posted"
    /\ Len(repos) = 2
    /\ \A t \in DOMAIN repos : ~repos[t].private
    /\ \E t \in DOMAIN repos : taskConfig[t].enable = Bool(FALSE)
    /\ tracked = 1

====
